---- MODULE Spec2Model ----
(***************************************************************************)
(* Model of budget-analyzer-web's exchange-rate lookup engine              *)
(* (buildExchangeRateMap, findNearestExchangeRate, convertCurrency) and of *)
(* the import message hook (useImportMessageHandler with its message       *)
(* builders).                                                              *)
(*                                                                         *)
(* Representation.                                                         *)
(*  - A calendar date is the string the program handles ("2020-01-01").    *)
(*    JavaScript's string comparison is StrLess (by character code), and   *)
(*    new Date(s).getTime() is getTime, which parses the string; both are  *)
(*    computed from the characters.  Time is counted in days: a date-only  *)
(*    ISO string is parsed as UTC midnight, so every instant is a whole    *)
(*    multiple of 86 400 000 ms.                                           *)
(*  - A JavaScript number is an exact rational [n, d] in lowest terms.     *)
(*  - A Map is the sequence of its entries in insertion order.             *)
(*  - null / undefined is the record Null.                                 *)
(***************************************************************************)
EXTENDS Integers, Sequences, FiniteSets, TLC

VARIABLES
  rates,             \* the ExchangeRateResponse[] handed to buildExchangeRateMap
  ratesMap,          \* the Map<string, ExchangeRateResponse> built from it
  last,              \* the last call on the lookup engine and its outcome
  exchangeRatesData, \* hook parameter: ExchangeRateResponse[]
  displayCurrency,   \* hook parameter
  filtersActive,     \* what hasActiveFilters() returns now
  importMessage,     \* useState<ImportMessage | null>
  timeoutRef,        \* useRef<NodeJS.Timeout | null>: a timer id or NoTimer
  timers,            \* ids of the scheduled timers that have neither fired nor been cleared
  nextTimer,         \* the id setTimeout hands out next
  mounted,           \* whether the hosting view is mounted
  event,             \* the last event the hook handled, with its arguments
  storedToken,       \* localStorage['auth_token']: a token or Null
  now,               \* Date.now(), in milliseconds
  pageMode,          \* the currency page rendered: "create" or "edit"
  location,          \* the route the router shows
  pageMessage,       \* the page's useState<Message | null>
  pageTimeoutRef,    \* the page's useRef<NodeJS.Timeout | null>: a timer id or NoTimer
  pageTimers,        \* ids of the page's scheduled timers, neither fired nor cleared
  pageNextTimer      \* the id setTimeout hands the page next

rateVars == <<rates, ratesMap, last>>
hookVars == <<exchangeRatesData, displayCurrency, filtersActive, importMessage,
              timeoutRef, timers, nextTimer, mounted, event>>
authVars == <<storedToken, now>>
pageVars == <<pageMode, location, pageMessage, pageTimeoutRef, pageTimers, pageNextTimer>>
vars == <<rates, ratesMap, last, exchangeRatesData, displayCurrency, filtersActive,
          importMessage, timeoutRef, timers, nextTimer, mounted, event,
          storedToken, now,
          pageMode, location, pageMessage, pageTimeoutRef, pageTimers, pageNextTimer>>

Null == [null |-> TRUE]

\* timeoutRef.current = null; the ids setTimeout returns are positive numbers
NoTimer == 0

(***************************************************************************)
(* Bounds and input universes.                                             *)
(***************************************************************************)
MaxRates == 2        \* longest rate-record list handed to the lookup engine
MaxHookRates == 2    \* longest exchangeRatesData list handed to the hook
MaxTxns == 2         \* longest imported transaction list

\* 2020-03-15 lies 74 days after 2020-01-01 and 78 days before 2020-06-01;
\* 2020-03-17 lies 76 days from both.
Dates == {"2019-05-01", "2020-01-01", "2020-03-15", "2020-03-17", "2020-06-01"}

Currencies == {"USD", "JPY", "THB"}

\* (baseCurrency, targetCurrency) of the rate records
CurrencyPairs == {<<"USD", "THB">>, <<"JPY", "USD">>}

\* 109.5 and 2/3 (toFixed(4): "109.5000" and "0.6667")
RateValues == {[n |-> 219, d |-> 2], [n |-> 2, d |-> 3]}

\* 100 and -2.5
Amounts == {[n |-> 100, d |-> 1], [n |-> -5, d |-> 2]}

RateRecords ==
  { [date |-> dt, baseCurrency |-> p[1], targetCurrency |-> p[2], rate |-> r] :
      dt \in Dates, p \in CurrencyPairs, r \in RateValues }

RECURSIVE SeqsUpTo(_, _)
SeqsUpTo(S, n) ==
  IF n = 0 THEN {<<>>}
  ELSE LET shorter == SeqsUpTo(S, n - 1)
       IN  shorter \cup {Append(s, x) : s \in {t \in shorter : Len(t) = n - 1}, x \in S}

\* the rate lists the lookup engine is given
RateLists == SeqsUpTo(RateRecords, MaxRates)

\* What the import message hook is given: rate records of two pairs quoted in USD
\* (109.5 on 2020-01-01, 2/3 on 2020-06-01), a display currency, and imports of
\* JPY and THB transactions dated before, on and after the first rate date.
HookRateRecords ==
  { [date |-> "2020-01-01", baseCurrency |-> b, targetCurrency |-> "USD",
     rate |-> [n |-> 219, d |-> 2]] : b \in {"JPY", "THB"} }
  \cup
  { [date |-> "2020-06-01", baseCurrency |-> b, targetCurrency |-> "USD",
     rate |-> [n |-> 2, d |-> 3]] : b \in {"JPY", "THB"} }

HookRateLists == SeqsUpTo(HookRateRecords, MaxHookRates)

DisplayCurrencies == {"USD", "JPY"}

Transactions ==
  { [date |-> dt, currencyIsoCode |-> c] :
      dt \in {"2019-05-01", "2020-01-01", "2020-06-01"}, c \in {"JPY", "THB"} }

TransactionLists == SeqsUpTo(Transactions, MaxTxns)

Counts == {0, 1, 3}

(***************************************************************************)
(* Numbers.                                                                *)
(***************************************************************************)
Abs(x) == IF x < 0 THEN -x ELSE x

RECURSIVE Gcd(_, _)
Gcd(a, b) == IF b = 0 THEN a ELSE Gcd(b, a % b)

\* the rational n/d (d # 0) in lowest terms with a positive denominator
Rat(n, d) ==
  LET g == Gcd(Abs(n), Abs(d))
      s == IF d < 0 THEN -1 ELSE 1
  IN  [n |-> (s * n) \div g, d |-> (s * d) \div g]

Times(x, y) == Rat(x.n * y.n, x.d * y.d)
\* x / y for y # 0 (every rate of the model is positive)
Over(x, y) == Rat(x.n * y.d, x.d * y.n)

(***************************************************************************)
(* Strings and dates.                                                      *)
(***************************************************************************)
Digits == <<"0", "1", "2", "3", "4", "5", "6", "7", "8", "9">>

\* UTF-16 code unit of the characters a date string is made of
CharCode(c) ==
  IF c = "-" THEN 45
  ELSE 47 + CHOOSE i \in 1..10 : Digits[i] = c

\* JavaScript's a < b on strings: lexicographic by code unit, a proper prefix first
RECURSIVE StrLessFrom(_, _, _)
StrLessFrom(a, b, i) ==
  IF i > Len(b) THEN FALSE
  ELSE IF i > Len(a) THEN TRUE
  ELSE LET ca == CharCode(SubSeq(a, i, i))
           cb == CharCode(SubSeq(b, i, i))
       IN  IF ca # cb THEN ca < cb ELSE StrLessFrom(a, b, i + 1)

StrLess(a, b) == StrLessFrom(a, b, 1)

\* the number written by the decimal digits of s
RECURSIVE ParseInt(_)
ParseInt(s) ==
  IF Len(s) = 0 THEN 0
  ELSE 10 * ParseInt(SubSeq(s, 1, Len(s) - 1))
       + (CharCode(SubSeq(s, Len(s), Len(s))) - 48)

\* days from 1970-01-01 to the civil date y-m-d (proleptic Gregorian calendar)
DaysFromCivil(y, m, d) ==
  LET yy  == IF m <= 2 THEN y - 1 ELSE y
      era == yy \div 400
      yoe == yy - era * 400
      mp  == (m + 9) % 12
      doy == (153 * mp + 2) \div 5 + d - 1
      doe == yoe * 365 + yoe \div 4 - yoe \div 100 + doy
  IN  era * 146097 + doe - 719468

\* new Date("YYYY-MM-DD").getTime(), in days
getTime(s) ==
  DaysFromCivil(ParseInt(SubSeq(s, 1, 4)), ParseInt(SubSeq(s, 6, 7)),
                ParseInt(SubSeq(s, 9, 10)))

\* Array.prototype.sort() with the default comparison, by insertion
RECURSIVE Insert(_, _)
Insert(sorted, x) ==
  IF sorted = <<>> THEN <<x>>
  ELSE IF StrLess(x, Head(sorted)) THEN <<x>> \o sorted
  ELSE <<Head(sorted)>> \o Insert(Tail(sorted), x)

RECURSIVE sort(_)
sort(s) == IF s = <<>> THEN <<>> ELSE Insert(sort(SubSeq(s, 1, Len(s) - 1)), s[Len(s)])

(***************************************************************************)
(* Map<string, V> as the sequence of its entries in insertion order.       *)
(***************************************************************************)
MapHas(map, k) == \E i \in 1..Len(map) : map[i].key = k

MapGet(map, k) ==
  IF MapHas(map, k)
  THEN map[CHOOSE i \in 1..Len(map) : map[i].key = k].value
  ELSE Null

\* Map.prototype.set: an existing key keeps its place, a new key goes last
MapSet(map, k, v) ==
  IF MapHas(map, k)
  THEN [i \in 1..Len(map) |-> IF map[i].key = k THEN [key |-> k, value |-> v] ELSE map[i]]
  ELSE Append(map, [key |-> k, value |-> v])

MapKeys(map) == [i \in 1..Len(map) |-> map[i].key]

(***************************************************************************)
(* src/lib/importMessageBuilder.ts: the exchange-rate lookup engine.       *)
(***************************************************************************)
\* a forEach that keeps the record already stored under a date
RECURSIVE buildExchangeRateMapFrom_KeepFirst(_, _)
buildExchangeRateMapFrom_KeepFirst(map, rs) ==
  IF rs = <<>> THEN map
  ELSE buildExchangeRateMapFrom_KeepFirst(
         IF MapHas(map, Head(rs).date) THEN map
         ELSE MapSet(map, Head(rs).date, Head(rs)),
         Tail(rs))

RECURSIVE buildExchangeRateMapFrom(_, _)
buildExchangeRateMapFrom(map, rs) ==
  IF rs = <<>> THEN map
  ELSE buildExchangeRateMapFrom(MapSet(map, Head(rs).date, Head(rs)), Tail(rs))

buildExchangeRateMap(rs) == buildExchangeRateMapFrom(<<>>, rs)

\* the for-of loop over allDates: [closestDate, minDifference] after the keys from i on
RECURSIVE ClosestLoop(_, _, _, _)
ClosestLoop(allDates, targetTime, i, acc) ==
  IF i > Len(allDates) THEN acc
  ELSE LET difference == Abs(getTime(allDates[i]) - targetTime)
       IN  IF difference < acc.minDifference
           THEN ClosestLoop(allDates, targetTime, i + 1,
                            [closestDate |-> allDates[i], minDifference |-> difference])
           ELSE ClosestLoop(allDates, targetTime, i + 1, acc)

\* the record of the first key of the sorted list, whatever the date asked for
findNearestExchangeRate_EarliestKey(date, map) ==
  LET allDates == sort(MapKeys(map))
  IN  IF Len(allDates) = 0 THEN Null ELSE MapGet(map, allDates[1])

\* the scan never moves off the first key of the sorted list
findNearestExchangeRate_FirstKey(date, map) ==
  LET exactMatch == MapGet(map, date)
  IN  IF exactMatch # Null THEN exactMatch
      ELSE LET allDates == sort(MapKeys(map))
           IN  IF Len(allDates) = 0 THEN Null ELSE MapGet(map, allDates[1])

\* only an exact match is ever returned
findNearestExchangeRate_ExactOnly(date, map) == MapGet(map, date)

\* the scan runs over the keys in insertion order, without the sort
findNearestExchangeRate_Unsorted(date, map) ==
  LET exactMatch == MapGet(map, date)
  IN  IF exactMatch # Null THEN exactMatch
      ELSE LET allDates == MapKeys(map)
           IN  IF Len(allDates) = 0 THEN Null
               ELSE LET targetTime == getTime(date)
                        start == [closestDate |-> allDates[1],
                                  minDifference |-> Abs(getTime(allDates[1]) - targetTime)]
                    IN  MapGet(map, ClosestLoop(allDates, targetTime, 1, start).closestDate)

findNearestExchangeRate(date, map) ==
  LET exactMatch == MapGet(map, date)
  IN  IF exactMatch # Null THEN exactMatch
      ELSE LET allDates == sort(MapKeys(map))
           IN  IF Len(allDates) = 0 THEN Null
               ELSE LET targetTime == getTime(date)
                        start == [closestDate |-> allDates[1],
                                  minDifference |-> Abs(getTime(allDates[1]) - targetTime)]
                        closestDate == ClosestLoop(allDates, targetTime, 1, start).closestDate
                    IN  MapGet(map, closestDate)

\* the currency the rate table is taken to be based on
FixedBaseCurrency == "USD"

\* console.warn / console.info of convertCurrency
NoRatesWarning(date, sourceCurrency, targetCurrency) ==
  [level |-> "warn",
   text  |-> "No exchange rates available in map for " \o date \o ", "
             \o sourceCurrency \o " -> " \o targetCurrency]

NearestRateInfo(rateDate, date) ==
  [level |-> "info",
   text  |-> "Using nearest exchange rate from " \o rateDate
             \o " for transaction dated " \o date]

\* How a call of convertCurrency ends: kind is "return" (with the number returned)
\* or "throw"; logs are the console lines written, lookups the dates handed to
\* findNearestExchangeRate.
Returned(value, logs, lookups) ==
  [kind |-> "return", value |-> value, logs |-> logs, lookups |-> lookups]

Thrown(logs, lookups) ==
  [kind |-> "throw", value |-> Null, logs |-> logs, lookups |-> lookups]

\* the same-currency shortcut missing: every call goes to the rate table
convertCurrency_NoShortcut(amount, date, sourceCurrency, targetCurrency, map) ==
  LET exchangeRateResponse == findNearestExchangeRate(date, map)
  IN  IF exchangeRateResponse = Null
      THEN Returned(amount, <<NoRatesWarning(date, sourceCurrency, targetCurrency)>>,
                    <<date>>)
      ELSE LET logs == IF exchangeRateResponse.date # date
                       THEN <<NearestRateInfo(exchangeRateResponse.date, date)>>
                       ELSE <<>>
               rate == exchangeRateResponse.rate
           IN  IF sourceCurrency = FixedBaseCurrency
               THEN Returned(Times(amount, rate), logs, <<date>>)
               ELSE Returned(Over(amount, rate), logs, <<date>>)

\* a missing rate raised to the caller instead of the fail-open return
convertCurrency_ThrowOnMissing(amount, date, sourceCurrency, targetCurrency, map) ==
  IF sourceCurrency = targetCurrency THEN Returned(amount, <<>>, <<>>)
  ELSE LET exchangeRateResponse == findNearestExchangeRate(date, map)
       IN  IF exchangeRateResponse = Null
           THEN Thrown(<<>>, <<date>>)
           ELSE LET logs == IF exchangeRateResponse.date # date
                            THEN <<NearestRateInfo(exchangeRateResponse.date, date)>>
                            ELSE <<>>
                    rate == exchangeRateResponse.rate
                IN  IF sourceCurrency = FixedBaseCurrency
                    THEN Returned(Times(amount, rate), logs, <<date>>)
                    ELSE Returned(Over(amount, rate), logs, <<date>>)

\* the direction taken from the resolved record's base currency
convertCurrency_ByRecordBase(amount, date, sourceCurrency, targetCurrency, map) ==
  IF sourceCurrency = targetCurrency THEN Returned(amount, <<>>, <<>>)
  ELSE LET exchangeRateResponse == findNearestExchangeRate(date, map)
       IN  IF exchangeRateResponse = Null
           THEN Returned(amount, <<NoRatesWarning(date, sourceCurrency, targetCurrency)>>,
                         <<date>>)
           ELSE LET logs == IF exchangeRateResponse.date # date
                            THEN <<NearestRateInfo(exchangeRateResponse.date, date)>>
                            ELSE <<>>
                    rate == exchangeRateResponse.rate
                IN  IF sourceCurrency = exchangeRateResponse.baseCurrency
                    THEN Returned(Times(amount, rate), logs, <<date>>)
                    ELSE Returned(Over(amount, rate), logs, <<date>>)

\* the fallback is used silently: no console.info
convertCurrency_NeverLogs(amount, date, sourceCurrency, targetCurrency, map) ==
  IF sourceCurrency = targetCurrency THEN Returned(amount, <<>>, <<>>)
  ELSE LET exchangeRateResponse == findNearestExchangeRate(date, map)
       IN  IF exchangeRateResponse = Null
           THEN Returned(amount, <<NoRatesWarning(date, sourceCurrency, targetCurrency)>>,
                         <<date>>)
           ELSE LET rate == exchangeRateResponse.rate
                IN  IF sourceCurrency = FixedBaseCurrency
                    THEN Returned(Times(amount, rate), <<>>, <<date>>)
                    ELSE Returned(Over(amount, rate), <<>>, <<date>>)

convertCurrency(amount, date, sourceCurrency, targetCurrency, map) ==
  IF sourceCurrency = targetCurrency THEN Returned(amount, <<>>, <<>>)
  ELSE LET exchangeRateResponse == findNearestExchangeRate(date, map)
       IN  IF exchangeRateResponse = Null
           THEN Returned(amount, <<NoRatesWarning(date, sourceCurrency, targetCurrency)>>,
                         <<date>>)
           ELSE LET logs == IF exchangeRateResponse.date # date
                            THEN <<NearestRateInfo(exchangeRateResponse.date, date)>>
                            ELSE <<>>
                    rate == exchangeRateResponse.rate
                IN  IF sourceCurrency = FixedBaseCurrency
                    THEN Returned(Times(amount, rate), logs, <<date>>)
                    ELSE Returned(Over(amount, rate), logs, <<date>>)

(***************************************************************************)
(* src/features/transactions/utils/messageBuilder.ts: the message texts.   *)
(***************************************************************************)
Pad2(k) == IF k < 10 THEN "0" \o ToString(k) ELSE ToString(k)

Pad4(k) ==
  IF k < 10 THEN "000" \o ToString(k)
  ELSE IF k < 100 THEN "00" \o ToString(k)
  ELSE IF k < 1000 THEN "0" \o ToString(k)
  ELSE ToString(k)

\* Number.prototype.toFixed(4): the nearest multiple of 0.0001, a tie going to
\* the larger magnitude, written with all four decimals
toFixed4(x) ==
  LET scaled == (2 * Abs(x.n) * 10000 + x.d) \div (2 * x.d)
      sign   == IF x.n < 0 /\ scaled > 0 THEN "-" ELSE ""
  IN  sign \o ToString(scaled \div 10000) \o "." \o Pad4(scaled % 10000)

\* formatLocalDate of @/utils/dates: the date parsed and written out as YYYY-MM-DD
formatLocalDate(date) ==
  Pad4(ParseInt(SubSeq(date, 1, 4))) \o "-" \o Pad2(ParseInt(SubSeq(date, 6, 7)))
    \o "-" \o Pad2(ParseInt(SubSeq(date, 9, 10)))

\* A value of type string | null is <<>> for null and <<s>> for the string s.
NoText == <<>>
Text(s) == <<s>>

\* a string | null that JavaScript takes for true in a condition
Truthy(v) == v # NoText /\ v[1] # ""

\* (the hook passes the date of a rate record, a string; !date is then date = "")
buildExchangeRateAvailabilityText(date, rate, targetCurrency, baseCurrency) ==
  IF date = "" THEN NoText
  ELSE Text("the rate of " \o toFixed4(rate) \o " " \o targetCurrency \o "/"
            \o baseCurrency \o " from " \o formatLocalDate(date))

FilterWarning == "  Some may be hidden by your current filters, [Clear filters] to see all."

OldTransactionsText ==
  "\nSome transactions are older than our earliest exchange rate. Currency conversions will use "

BaseMessage(count) == "Successfully imported " \o ToString(count) \o " transaction(s)"

\* both branches answer with type 'warning'
buildImportSuccessMessage_AlwaysWarning(count, hasOldTransactions, earliestRateText, active) ==
  LET filterWarning == IF active THEN FilterWarning ELSE ""
  IN  IF hasOldTransactions /\ Truthy(earliestRateText)
      THEN [type |-> "warning",
            text |-> BaseMessage(count) \o "." \o filterWarning \o OldTransactionsText
                     \o earliestRateText[1] \o "."]
      ELSE [type |-> "warning", text |-> BaseMessage(count) \o "." \o filterWarning]

\* the warning branch forgets the filter caveat
buildImportSuccessMessage_NoCaveatInWarning(count, hasOldTransactions, earliestRateText, active) ==
  IF hasOldTransactions /\ Truthy(earliestRateText)
  THEN [type |-> "warning",
        text |-> BaseMessage(count) \o "." \o OldTransactionsText
                 \o earliestRateText[1] \o "."]
  ELSE LET filterWarning == IF active THEN FilterWarning ELSE ""
       IN  [type |-> "success", text |-> BaseMessage(count) \o "." \o filterWarning]

\* hasOldTransactions alone decides for the warning
buildImportSuccessMessage_OldAlone(count, hasOldTransactions, earliestRateText, active) ==
  LET filterWarning == IF active THEN FilterWarning ELSE ""
  IN  IF hasOldTransactions
      THEN [type |-> "warning",
            text |-> BaseMessage(count) \o "." \o filterWarning \o OldTransactionsText
                     \o (IF earliestRateText = NoText THEN "null" ELSE earliestRateText[1])
                     \o "."]
      ELSE [type |-> "success", text |-> BaseMessage(count) \o "." \o filterWarning]

buildImportSuccessMessage(count, hasOldTransactions, earliestRateText, active) ==
  IF hasOldTransactions /\ Truthy(earliestRateText)
  THEN LET filterWarning == IF active THEN FilterWarning ELSE ""
       IN  [type |-> "warning",
            text |-> BaseMessage(count) \o "." \o filterWarning \o OldTransactionsText
                     \o earliestRateText[1] \o "."]
  ELSE LET filterWarning == IF active THEN FilterWarning ELSE ""
       IN  [type |-> "success", text |-> BaseMessage(count) \o "." \o filterWarning]

\* src/lib/importMessageBuilder.ts: the same function with another caveat text
LibFilterWarning ==
  " Some may be hidden by your current filters. [Clear filters] to see all."

buildImportSuccessMessageLib(count, hasOldTransactions, earliestRateText, active) ==
  IF hasOldTransactions /\ Truthy(earliestRateText)
  THEN LET filterWarning == IF active THEN LibFilterWarning ELSE ""
       IN  [type |-> "warning",
            text |-> BaseMessage(count) \o "." \o filterWarning \o OldTransactionsText
                     \o earliestRateText[1] \o "."]
  ELSE LET filterWarning == IF active THEN LibFilterWarning ELSE ""
       IN  [type |-> "success", text |-> BaseMessage(count) \o "." \o filterWarning]

(***************************************************************************)
(* src/features/transactions/hooks/useImportMessageHandler.ts              *)
(***************************************************************************)
\* key of earliestRatesByCurrency: "TARGETCURRENCY_BASECURRENCY"
PairKey(targetCurrency, baseCurrency) == targetCurrency \o "_" \o baseCurrency

\* a forEach that stores every record under its pair, whatever its date
RECURSIVE earliestRatesFrom_LastWins(_, _)
earliestRatesFrom_LastWins(map, data) ==
  IF data = <<>> THEN map
  ELSE LET rate == Head(data)
       IN  earliestRatesFrom_LastWins(
             MapSet(map, PairKey(rate.targetCurrency, rate.baseCurrency), rate),
             Tail(data))

RECURSIVE earliestRatesFrom(_, _)
earliestRatesFrom(map, data) ==
  IF data = <<>> THEN map
  ELSE LET rate     == Head(data)
           key      == PairKey(rate.targetCurrency, rate.baseCurrency)
           existing == MapGet(map, key)
       IN  IF existing = Null \/ StrLess(rate.date, existing.date)
           THEN earliestRatesFrom(MapSet(map, key, rate), Tail(data))
           ELSE earliestRatesFrom(map, Tail(data))

\* the useMemo over exchangeRatesData
earliestRatesByCurrency == earliestRatesFrom(<<>>, exchangeRatesData)

\* importedTransactions.reduce((earliest, current) => ...) without an initial value
RECURSIVE reduceEarliest(_, _, _)
reduceEarliest(txns, i, earliest) ==
  IF i > Len(txns) THEN earliest
  ELSE reduceEarliest(txns, i + 1,
                      IF StrLess(txns[i].date, earliest.date) THEN txns[i] ELSE earliest)

\* the first transaction taken for the earliest (no reduce)
earliestTransaction_First(importedTransactions) == importedTransactions[1]

earliestTransaction(importedTransactions) ==
  reduceEarliest(importedTransactions, 2, importedTransactions[1])

\* hasOldTransactions with <= for <
IsOlder_OrEqual(transactionDate, rateDate) == ~StrLess(rateDate, transactionDate)

\* earliestTransaction.date < earliestRate.date
IsOlder(transactionDate, rateDate) == StrLess(transactionDate, rateDate)

\* the pair is looked up by the currency of the earliest transaction
ImportMessageFor_EarliestCurrency(count, importedTransactions) ==
  IF Len(importedTransactions) = 0
  THEN buildImportSuccessMessage(count, FALSE, NoText, filtersActive)
  ELSE LET earliest        == earliestTransaction(importedTransactions)
           currencyPairKey == PairKey(displayCurrency, earliest.currencyIsoCode)
           earliestRate    == MapGet(earliestRatesByCurrency, currencyPairKey)
           hasOldTransactions ==
             IF earliestRate # Null THEN IsOlder(earliest.date, earliestRate.date)
             ELSE FALSE
           earliestRateText ==
             IF earliestRate # Null /\ hasOldTransactions
             THEN buildExchangeRateAvailabilityText(earliestRate.date, earliestRate.rate,
                                                    earliestRate.targetCurrency,
                                                    earliestRate.baseCurrency)
             ELSE NoText
       IN  buildImportSuccessMessage(count, hasOldTransactions, earliestRateText,
                                     filtersActive)

\* the message handleImportSuccess builds for (count, importedTransactions)
ImportMessageFor(count, importedTransactions) ==
  IF Len(importedTransactions) = 0
  THEN buildImportSuccessMessage(count, FALSE, NoText, filtersActive)
  ELSE LET importCurrency  == importedTransactions[1].currencyIsoCode
           earliest        == earliestTransaction(importedTransactions)
           currencyPairKey == PairKey(displayCurrency, importCurrency)
           earliestRate    == MapGet(earliestRatesByCurrency, currencyPairKey)
           hasOldTransactions ==
             IF earliestRate # Null THEN IsOlder(earliest.date, earliestRate.date)
             ELSE FALSE
           earliestRateText ==
             IF earliestRate # Null /\ hasOldTransactions
             THEN buildExchangeRateAvailabilityText(earliestRate.date, earliestRate.rate,
                                                    earliestRate.targetCurrency,
                                                    earliestRate.baseCurrency)
             ELSE NoText
       IN  buildImportSuccessMessage(count, hasOldTransactions, earliestRateText,
                                     filtersActive)

\* handleImportSuccess: an empty list sets the message and returns; otherwise a
\* success message also replaces the pending auto-dismiss timer by a new one
HandleImportSuccess(count, importedTransactions) ==
  LET message == ImportMessageFor(count, importedTransactions)
  IN  /\ importMessage' = message
      /\ IF Len(importedTransactions) # 0 /\ message.type = "success"
         THEN /\ timers' = (timers \ {timeoutRef}) \cup {nextTimer}
              /\ timeoutRef' = nextTimer
              /\ nextTimer' = nextTimer + 1
         ELSE UNCHANGED <<timers, timeoutRef, nextTimer>>
      /\ event' = [type |-> "importSuccess", count |-> count,
                   importedTransactions |-> importedTransactions,
                   filtersActive |-> filtersActive]
      /\ UNCHANGED <<exchangeRatesData, displayCurrency, filtersActive, mounted>>
      /\ UNCHANGED rateVars
      /\ UNCHANGED pageVars
      /\ UNCHANGED authVars

\* the setTimeout callback of timer id, 5000 ms after it was scheduled
TimerFires(id) ==
  /\ id \in timers
  /\ timers' = timers \ {id}
  /\ importMessage' = Null
  /\ timeoutRef' = NoTimer
  /\ event' = [type |-> "timer", id |-> id]
  /\ UNCHANGED <<exchangeRatesData, displayCurrency, filtersActive, nextTimer, mounted>>
  /\ UNCHANGED rateVars
  /\ UNCHANGED pageVars
  /\ UNCHANGED authVars

\* a dismissal that hides the message and leaves the timer scheduled
ClearImportMessage_KeepTimer ==
  /\ importMessage' = Null
  /\ event' = [type |-> "clear"]
  /\ UNCHANGED <<exchangeRatesData, displayCurrency, filtersActive, timeoutRef, timers,
                 nextTimer, mounted>>
  /\ UNCHANGED rateVars
  /\ UNCHANGED pageVars
  /\ UNCHANGED authVars

\* a dismissal that cancels the timer and keeps the reference to it
ClearImportMessage_KeepRef ==
  /\ importMessage' = Null
  /\ timers' = timers \ {timeoutRef}
  /\ event' = [type |-> "clear"]
  /\ UNCHANGED <<exchangeRatesData, displayCurrency, filtersActive, timeoutRef,
                 nextTimer, mounted>>
  /\ UNCHANGED rateVars
  /\ UNCHANGED pageVars
  /\ UNCHANGED authVars

ClearImportMessage ==
  /\ importMessage' = Null
  /\ IF timeoutRef # NoTimer
     THEN timers' = timers \ {timeoutRef} /\ timeoutRef' = NoTimer
     ELSE UNCHANGED <<timers, timeoutRef>>
  /\ event' = [type |-> "clear"]
  /\ UNCHANGED <<exchangeRatesData, displayCurrency, filtersActive, nextTimer, mounted>>
  /\ UNCHANGED rateVars
  /\ UNCHANGED pageVars
  /\ UNCHANGED authVars

\* handleImportError: error.message || 'Failed to import transactions'; no timer
\* is scheduled and none is cleared
HandleImportError(message) ==
  /\ importMessage' = [type |-> "error",
                       text |-> IF Truthy(message) THEN message[1]
                                ELSE "Failed to import transactions"]
  /\ event' = [type |-> "importError", message |-> message]
  /\ UNCHANGED <<exchangeRatesData, displayCurrency, filtersActive, timeoutRef, timers,
                 nextTimer, mounted>>
  /\ UNCHANGED rateVars
  /\ UNCHANGED pageVars
  /\ UNCHANGED authVars

\* an unmount whose cleanup leaves the pending timer scheduled
Unmount_KeepTimer ==
  /\ mounted
  /\ mounted' = FALSE
  /\ event' = [type |-> "unmount"]
  /\ UNCHANGED <<exchangeRatesData, displayCurrency, filtersActive, importMessage,
                 timeoutRef, timers, nextTimer>>
  /\ UNCHANGED rateVars
  /\ UNCHANGED pageVars
  /\ UNCHANGED authVars

\* the cleanup of the mount effect: clearTimeout(timeoutRef.current) when it is set;
\* the ref itself is left as it is
Unmount ==
  /\ mounted
  /\ mounted' = FALSE
  /\ timers' = IF timeoutRef # NoTimer THEN timers \ {timeoutRef} ELSE timers
  /\ event' = [type |-> "unmount"]
  /\ UNCHANGED <<exchangeRatesData, displayCurrency, filtersActive, importMessage,
                 timeoutRef, nextTimer>>
  /\ UNCHANGED rateVars
  /\ UNCHANGED pageVars
  /\ UNCHANGED authVars

(***************************************************************************)
(* The lookup engine as a state machine: the rate list arrives and the     *)
(* index is built from it; then the engine is asked one question, on the   *)
(* index as it is (empty until the list has arrived).  The functions keep  *)
(* no state of their own, so one question per behaviour loses nothing.     *)
(***************************************************************************)
HookIdle ==
  /\ exchangeRatesData = <<>>
  /\ displayCurrency = "USD"
  /\ filtersActive = FALSE
  /\ importMessage = Null
  /\ timeoutRef = NoTimer
  /\ timers = {}
  /\ nextTimer = 1
  /\ mounted = TRUE
  /\ event = [type |-> "none"]

\* nothing stored under 'auth_token'; the clock at the origin
AuthIdle ==
  /\ storedToken = Null
  /\ now = 0

\* the currency create page, just rendered
PageIdle ==
  /\ pageMode = "create"
  /\ location = "/admin/currencies/new"
  /\ pageMessage = Null
  /\ pageTimeoutRef = NoTimer
  /\ pageTimers = {}
  /\ pageNextTimer = 1

Init ==
  /\ rates = <<>>
  /\ ratesMap = <<>>
  /\ last = [op |-> "none"]
  /\ HookIdle
  /\ AuthIdle
  /\ PageIdle

BuildExchangeRateMap(rs) ==
  /\ rates' = rs
  /\ ratesMap' = buildExchangeRateMap(rs)
  /\ last' = [op |-> "build"]
  /\ UNCHANGED hookVars
  /\ UNCHANGED pageVars
  /\ UNCHANGED authVars

\* a lookup that stores the fallback record it found under the date asked for
FindNearestExchangeRate_CachesFallback(date) ==
  LET ret == findNearestExchangeRate(date, ratesMap)
  IN  /\ last' = [op |-> "find", date |-> date, ret |-> ret]
      /\ ratesMap' = IF ret # Null THEN MapSet(ratesMap, date, ret) ELSE ratesMap
      /\ UNCHANGED rates
      /\ UNCHANGED hookVars
      /\ UNCHANGED pageVars
      /\ UNCHANGED authVars

FindNearestExchangeRate(date) ==
  /\ last' = [op |-> "find", date |-> date,
              ret |-> findNearestExchangeRate(date, ratesMap)]
  /\ UNCHANGED <<rates, ratesMap>>
  /\ UNCHANGED hookVars
  /\ UNCHANGED pageVars
  /\ UNCHANGED authVars

ConvertCurrency(amount, date, sourceCurrency, targetCurrency) ==
  /\ last' = [op |-> "convert", amount |-> amount, date |-> date,
              sourceCurrency |-> sourceCurrency, targetCurrency |-> targetCurrency,
              ret |-> convertCurrency(amount, date, sourceCurrency, targetCurrency,
                                      ratesMap)]
  /\ UNCHANGED <<rates, ratesMap>>
  /\ UNCHANGED hookVars
  /\ UNCHANGED pageVars
  /\ UNCHANGED authVars

\* the rate list has not arrived yet / the engine has not been asked yet
NotLoaded == last.op = "none"
NotAsked == last.op \in {"none", "build"}

RatesArrive == NotLoaded /\ \E rs \in RateLists : BuildExchangeRateMap(rs)

AskNearest == NotAsked /\ \E date \in Dates : FindNearestExchangeRate(date)

AskConversion ==
  NotAsked /\ \E amount \in Amounts, date \in Dates, sourceCurrency \in Currencies,
                 targetCurrency \in Currencies :
                ConvertCurrency(amount, date, sourceCurrency, targetCurrency)

Next == RatesArrive \/ AskNearest \/ AskConversion

Spec == Init /\ [][Next]_vars

(***************************************************************************)
(* Claims about the lookup engine, checked under Spec.                     *)
(***************************************************************************)
\* |a - b| in days between two calendar dates
Distance(a, b) == Abs(getTime(a) - getTime(b))

IndexKeys == {ratesMap[i].key : i \in 1..Len(ratesMap)}
IndexRecords == {ratesMap[i].value : i \in 1..Len(ratesMap)}

\* C1: asked for a date that is a key of the index, findNearestExchangeRate returns
\* the record stored under that key, whose date is the date asked for, whatever
\* other keys the index holds.
C1_ExactMatchFirst ==
  (last.op = "find" /\ last.date \in IndexKeys) =>
    /\ \E i \in 1..Len(ratesMap) :
         ratesMap[i].key = last.date /\ last.ret = ratesMap[i].value
    /\ last.ret.date = last.date

\* an exact hit on 2020-06-01, the later of two keys
C1_Witness ==
  /\ last.op = "find"
  /\ last.date = "2020-06-01"
  /\ IndexKeys = {"2020-01-01", "2020-06-01"}
  /\ last.ret.date = "2020-06-01"

\* C2: on a non-empty index the record returned is at least as near to the date
\* asked for as every key of the index.
C2_NearestIsMinimal ==
  (last.op = "find" /\ ratesMap # <<>>) =>
    /\ last.ret # Null
    /\ \A k \in IndexKeys : Distance(last.ret.date, last.date) <= Distance(k, last.date)

\* keys 2020-01-01 (74 days away) and 2020-06-01 (78 days away), asked for 2020-03-15
C2_Witness ==
  /\ last.op = "find"
  /\ last.date = "2020-03-15"
  /\ IndexKeys = {"2020-01-01", "2020-06-01"}
  /\ Distance("2020-01-01", last.date) = 74
  /\ Distance("2020-06-01", last.date) = 78
  /\ last.ret.date = "2020-01-01"

\* C3: findNearestExchangeRate returns null exactly when the index has no entry;
\* the index built from the empty list has none, and on a non-empty index the
\* record returned is one of the index.
C3_NullIffEmpty ==
  /\ (rates = <<>>) <=> (ratesMap = <<>>)
  /\ last.op = "find" =>
       /\ (last.ret = Null) <=> (Len(ratesMap) = 0)
       /\ Len(ratesMap) > 0 => last.ret \in IndexRecords

\* the index built from the empty list, asked for a date
C3_Witness ==
  /\ last.op = "find"
  /\ rates = <<>>
  /\ ratesMap = <<>>
  /\ last.ret = Null

\* C4: with source and target currency the same, convertCurrency returns the
\* amount it was given, looks up no rate and logs nothing.
C4_SameCurrencyIdentity ==
  (last.op = "convert" /\ last.sourceCurrency = last.targetCurrency) =>
    /\ last.ret.kind = "return"
    /\ last.ret.value = last.amount
    /\ last.ret.lookups = <<>>
    /\ last.ret.logs = <<>>

\* same currency on an index that holds no record for the date asked for
C4_Witness ==
  /\ last.op = "convert"
  /\ last.sourceCurrency = last.targetCurrency
  /\ ratesMap # <<>>
  /\ last.date \notin IndexKeys
  /\ last.ret.value = last.amount

\* C5: convertCurrency always returns a number; with differing currencies and an
\* empty index it returns the amount it was given and logs one warning, nothing
\* else.
C5_FailOpen ==
  last.op = "convert" =>
    /\ last.ret.kind = "return"
    /\ last.ret.value # Null
    /\ (last.sourceCurrency # last.targetCurrency /\ ratesMap = <<>>) =>
         /\ last.ret.value = last.amount
         /\ Len(last.ret.logs) = 1
         /\ last.ret.logs[1].level = "warn"

\* differing currencies on the empty index
C5_Witness ==
  /\ last.op = "convert"
  /\ last.sourceCurrency # last.targetCurrency
  /\ ratesMap = <<>>
  /\ last.ret.kind = "return"
  /\ last.ret.value = last.amount
  /\ last.ret.logs[1].level = "warn"

\* the record a lookup for the date of the last call resolves to
Resolved == findNearestExchangeRate(last.date, ratesMap)

\* x = a * r and x = a / r on rationals, by cross-multiplication
IsProduct(x, a, r) == x.n * (a.d * r.d) = (a.n * r.n) * x.d
IsQuotient(x, a, r) == x.n * (a.d * r.n) = (a.n * r.d) * x.d

\* C6: with differing currencies and a rate r resolved, convertCurrency returns
\* amount * r when the source currency is the fixed base currency (USD) and
\* amount / r otherwise, whatever the target currency and whatever the base and
\* target currency of the resolved record.
C6_DirectionBySource ==
  (last.op = "convert" /\ last.sourceCurrency # last.targetCurrency /\ ratesMap # <<>>) =>
    /\ last.ret.kind = "return"
    /\ IF last.sourceCurrency = "USD"
       THEN IsProduct(last.ret.value, last.amount, Resolved.rate)
       ELSE IsQuotient(last.ret.value, last.amount, Resolved.rate)

\* 100 USD converted to JPY with a JPY-based record of rate 109.5: 10950
C6_Witness ==
  /\ last.op = "convert"
  /\ last.sourceCurrency = "USD"
  /\ last.targetCurrency = "JPY"
  /\ last.amount = [n |-> 100, d |-> 1]
  /\ ratesMap # <<>>
  /\ Resolved.baseCurrency = "JPY"
  /\ Resolved.rate = [n |-> 219, d |-> 2]
  /\ last.ret.value = [n |-> 10950, d |-> 1]

(***************************************************************************)
(* The import message hook on one import: the hook is rendered with a rate *)
(* list, a display currency and a filter state; one import completes; the  *)
(* message then stays until its timer fires or the banner is closed.  The  *)
(* message of an import is computed from the arguments and the hook's      *)
(* parameters alone, never from an earlier message.                        *)
(***************************************************************************)
InitImport ==
  /\ rates = <<>>
  /\ ratesMap = <<>>
  /\ last = [op |-> "none"]
  /\ exchangeRatesData \in HookRateLists
  /\ displayCurrency \in DisplayCurrencies
  /\ filtersActive \in BOOLEAN
  /\ importMessage = Null
  /\ timeoutRef = NoTimer
  /\ timers = {}
  /\ nextTimer = 1
  /\ mounted = TRUE
  /\ event = [type |-> "none"]
  /\ AuthIdle
  /\ PageIdle

ImportCompletes ==
  event.type = "none" /\ \E count \in Counts, importedTransactions \in TransactionLists :
                           HandleImportSuccess(count, importedTransactions)

AutoDismiss == \E id \in timers : TimerFires(id)

\* the banner, and with it its close button, is rendered only while a message is set
CloseBanner == importMessage # Null /\ ClearImportMessage

NextImport == ImportCompletes \/ AutoDismiss \/ CloseBanner

SpecImport == InitImport /\ [][NextImport]_vars

(***************************************************************************)
(* Claims about the message of an import, checked under SpecImport.  They  *)
(* read the state right after handleImportSuccess: event holds the call's  *)
(* arguments and importMessage the message it set.                         *)
(***************************************************************************)
Imported == event.type = "importSuccess"

\* t occurs in s
Contains(s, t) == \E i \in 1..(Len(s) - Len(t) + 1) : SubSeq(s, i, i + Len(t) - 1) = t

\* The rate records of the import's currency pair: quoted in the display currency
\* for the currency of the import, which the hook reads off the first transaction
\* (all transactions of one import are in the same currency).
PairRecords ==
  { r \in { exchangeRatesData[i] : i \in 1..Len(exchangeRatesData) } :
      /\ r.targetCurrency = displayCurrency
      /\ r.baseCurrency = event.importedTransactions[1].currencyIsoCode }

\* the earliest of them, by calendar time
EarliestPairRecords ==
  { r \in PairRecords : \A q \in PairRecords : getTime(r.date) <= getTime(q.date) }

ImportedDates ==
  { event.importedTransactions[i].date : i \in 1..Len(event.importedTransactions) }

\* some imported date lies before the pair's earliest rate date, by calendar time
SomeImportedBeforeRates ==
  \E dt \in ImportedDates : \E r \in EarliestPairRecords : getTime(dt) < getTime(r.date)

C8_OldImportWarns ==
  (Imported /\ Len(event.importedTransactions) > 0 /\ SomeImportedBeforeRates) =>
    /\ importMessage.type = "warning"
    /\ \E r \in EarliestPairRecords :
         /\ Contains(importMessage.text, formatLocalDate(r.date))
         /\ Contains(importMessage.text, toFixed4(r.rate))

\* JPY transactions of 2020-06-01 and 2019-05-01 against a first JPY rate of 109.5
\* on 2020-01-01: the warning names 2020-01-01 and 109.5000
C8_Witness ==
  /\ Imported
  /\ Len(event.importedTransactions) = 2
  /\ event.importedTransactions[1] = [date |-> "2020-06-01", currencyIsoCode |-> "JPY"]
  /\ event.importedTransactions[2] = [date |-> "2019-05-01", currencyIsoCode |-> "JPY"]
  /\ displayCurrency = "USD"
  /\ \E r \in EarliestPairRecords : r.date = "2020-01-01" /\ r.rate = [n |-> 219, d |-> 2]
  /\ importMessage.type = "warning"
  /\ Contains(importMessage.text, "2020-01-01")
  /\ Contains(importMessage.text, "109.5000")

\* C9: a non-empty import none of whose dates lies before the earliest rate date
\* of its currency pair (equal dates included), or whose pair has no rate record,
\* produces a success message.
C9_CoveredImportIsSuccess ==
  (Imported /\ Len(event.importedTransactions) > 0 /\ ~SomeImportedBeforeRates) =>
    importMessage.type = "success"

\* the earliest imported date equal to the earliest rate date
C9_Witness ==
  /\ Imported
  /\ Len(event.importedTransactions) > 0
  /\ PairRecords # {}
  /\ \E dt \in ImportedDates : \E r \in EarliestPairRecords :
       /\ dt = r.date
       /\ \A other \in ImportedDates : getTime(dt) <= getTime(other)
  /\ importMessage.type = "success"

\* C10: the message of an import contains the filter caveat exactly when
\* hasActiveFilters() answered true at the import, in the success and in the
\* warning branch and for an empty import.
C10_CaveatIffFiltersActive ==
  Imported =>
    (Contains(importMessage.text, "Some may be hidden by your current filters")
       <=> event.filtersActive)

\* a warning with the caveat
C10_Witness ==
  /\ Imported
  /\ event.filtersActive
  /\ importMessage.type = "warning"
  /\ Contains(importMessage.text, "Some may be hidden by your current filters")

(***************************************************************************)
(* The import message hook over a sequence of events: imports complete     *)
(* (with no transaction, with one dated before the pair's first rate, with *)
(* one dated after it), imports fail, timers fire, the banner is closed,   *)
(* the view unmounts.  The import button and the banner belong to the      *)
(* view, and the button hands its callbacks to mutate(), so no handler of  *)
(* the hook is called once the view is unmounted; a scheduled timer fires  *)
(* whether the view is mounted or not.                                     *)
(***************************************************************************)
MaxTimers == 3       \* most timers scheduled in one behaviour

\* one THB -> USD record, first available on 2020-01-01
HookRates ==
  << [date |-> "2020-01-01", baseCurrency |-> "THB", targetCurrency |-> "USD",
      rate |-> [n |-> 219, d |-> 2]] >>

HookTransaction(date) ==
  [date |-> date, currencyIsoCode |-> "THB", amount |-> [n |-> 100, d |-> 1]]

\* (count, importedTransactions) of the imports that complete
HookImports ==
  { <<0, <<>> >>,
    <<1, <<HookTransaction("2019-05-01")>> >>,
    <<1, <<HookTransaction("2020-06-01")>> >>,
    <<2, <<HookTransaction("2020-06-01"), HookTransaction("2020-01-01")>> >> }

\* error.message: undefined, empty, or a text
ErrorMessages == {NoText, Text(""), Text("Network Error")}

InitHook ==
  /\ rates = <<>>
  /\ ratesMap = <<>>
  /\ last = [op |-> "none"]
  /\ exchangeRatesData = HookRates
  /\ displayCurrency = "USD"
  /\ filtersActive \in BOOLEAN
  /\ importMessage = Null
  /\ timeoutRef = NoTimer
  /\ timers = {}
  /\ nextTimer = 1
  /\ mounted = TRUE
  /\ event = [type |-> "none"]
  /\ AuthIdle
  /\ PageIdle

ImportSucceeds ==
  /\ mounted
  /\ nextTimer <= MaxTimers
  /\ \E import \in HookImports : HandleImportSuccess(import[1], import[2])

ImportFails == mounted /\ \E message \in ErrorMessages : HandleImportError(message)

Dismiss == mounted /\ importMessage # Null /\ ClearImportMessage

NextHook == ImportSucceeds \/ ImportFails \/ AutoDismiss \/ Dismiss \/ Unmount

SpecHook == InitHook /\ [][NextHook]_vars

(***************************************************************************)
(* Claims about the life of the message, checked under SpecHook.           *)
(***************************************************************************)
\* the event just handled was an import that completed and set a success message
SuccessJustSet ==
  /\ event.type = "importSuccess"
  /\ importMessage # Null
  /\ importMessage.type = "success"

\* the timer held by timeoutRef is scheduled
TimerPending == timeoutRef # NoTimer /\ timeoutRef \in timers

\* C11: every success message set by handleImportSuccess is auto-hidden.  The
\* timer callback is the only step that hides a message without a further
\* import, error or dismiss event, so right after handleImportSuccess has set a
\* success message a timer must be scheduled that will set importMessage to null.
C11_SuccessHasTimer == SuccessJustSet => TimerPending

WarningShown == importMessage # Null /\ importMessage.type = "warning"

\* C12: a warning is never removed by a timer: while a warning is displayed, a
\* step either leaves importMessage as it is or is a dismissal or a later import
\* event, never the callback of a timer.
C12_WarningOutlivesTimers ==
  [][WarningShown => (importMessage' = importMessage \/ event'.type # "timer")]_vars

\* C13: an unmount while an auto-dismiss timer is pending cancels the timer: once
\* the view is unmounted no timer is scheduled, so no callback runs, and no step
\* changes importMessage or handles a further event.
C13_UnmountCancelsTimer ==
  [][ /\ ~mounted' => timers' = {}
      /\ ~mounted => (importMessage' = importMessage /\ event' = event) ]_vars

\* the view was unmounted while the timer of a success message was pending
C13_Witness ==
  /\ ~mounted
  /\ event.type = "unmount"
  /\ timeoutRef # NoTimer
  /\ timers = {}
  /\ importMessage # Null
  /\ importMessage.type = "success"

(***************************************************************************)
(* Further claims about the lookup engine, checked under Spec.             *)
(***************************************************************************)
\* the dates occurring in the rate list handed to buildExchangeRateMap
InputDates == {rates[i].date : i \in 1..Len(rates)}

\* rates[i] is the last record of the list carrying its date
LastOfItsDate(i) == \A j \in (i + 1)..Len(rates) : rates[j].date # rates[i].date

\* C14: the index built by buildExchangeRateMap has exactly the dates of the input
\* as its keys, one entry per date, and holds under each date the last record of
\* the input carrying that date.
C14_LastWriteWins ==
  /\ IndexKeys = InputDates
  /\ Len(ratesMap) = Cardinality(InputDates)
  /\ \A i \in 1..Len(rates) :
        LastOfItsDate(i) => MapGet(ratesMap, rates[i].date) = rates[i]

\* two different records of one date: the index holds the second
C14_Witness ==
  /\ Len(rates) = 2
  /\ rates[1].date = rates[2].date
  /\ rates[1] # rates[2]
  /\ ratesMap = << [key |-> rates[2].date, value |-> rates[2]] >>

(***************************************************************************)
(* The earliest-rate index, checked under SpecImport.                      *)
(***************************************************************************)
HookRecords == { exchangeRatesData[i] : i \in 1..Len(exchangeRatesData) }

SamePair(r, q) ==
  r.targetCurrency = q.targetCurrency /\ r.baseCurrency = q.baseCurrency

\* C15: earliestRatesByCurrency holds one entry for each (targetCurrency,
\* baseCurrency) pair occurring in exchangeRatesData and none for any other pair;
\* the entry of a pair is a record of the input of that pair, and no input record
\* of the pair has an earlier date.
C15_EarliestPerPair ==
  LET index == earliestRatesByCurrency
      held  == { index[i].value : i \in 1..Len(index) }
  IN  /\ held \subseteq HookRecords
      /\ \A r \in HookRecords : \E e \in held : SamePair(e, r)
      /\ \A i, j \in 1..Len(index) : SamePair(index[i].value, index[j].value) => i = j
      /\ \A i \in 1..Len(index) :
            index[i].key = PairKey(index[i].value.targetCurrency,
                                   index[i].value.baseCurrency)
      /\ \A e \in held : \A q \in HookRecords :
            SamePair(e, q) => getTime(e.date) <= getTime(q.date)

\* two records of one pair, the later one first: the index holds the second, and
\* an import dated before it is warned with the second record's date
C15_Witness ==
  /\ Len(exchangeRatesData) = 2
  /\ SamePair(exchangeRatesData[1], exchangeRatesData[2])
  /\ getTime(exchangeRatesData[2].date) < getTime(exchangeRatesData[1].date)
  /\ Len(earliestRatesByCurrency) = 1
  /\ earliestRatesByCurrency[1].value = exchangeRatesData[2]
  /\ Imported
  /\ importMessage # Null
  /\ importMessage.type = "warning"
  /\ Contains(importMessage.text, exchangeRatesData[2].date)

(***************************************************************************)
(* Dates outside the range of the index, and the frame of the lookups;     *)
(* checked under Spec.                                                     *)
(***************************************************************************)
BeforeAllKeys(date) == \A k \in IndexKeys : getTime(date) < getTime(k)
AfterAllKeys(date) == \A k \in IndexKeys : getTime(k) < getTime(date)

MinKey == CHOOSE k \in IndexKeys : \A q \in IndexKeys : getTime(k) <= getTime(q)
MaxKey == CHOOSE k \in IndexKeys : \A q \in IndexKeys : getTime(q) <= getTime(k)

\* C16: on a non-empty index, findNearestExchangeRate resolves a date strictly
\* earlier than every key to the record of the minimum key, and a date strictly
\* later than every key to the record of the maximum key.
C16_OutOfRangeClamps ==
  (last.op = "find" /\ ratesMap # <<>>) =>
     /\ BeforeAllKeys(last.date) => last.ret = MapGet(ratesMap, MinKey)
     /\ AfterAllKeys(last.date) => last.ret = MapGet(ratesMap, MaxKey)

\* a date after both keys of a two-key index resolves to the later key's record
C16_Witness ==
  /\ last.op = "find"
  /\ Len(ratesMap) = 2
  /\ AfterAllKeys(last.date)
  /\ MinKey # MaxKey
  /\ last.ret.date = MaxKey
  /\ last.ret = MapGet(ratesMap, MaxKey)

\* Calls interleaved on one shared index: the rate list arrives once, then the
\* engine is asked any number of questions, in any order.
MaxSharedRates == 2  \* longest rate list behind the shared index

SharedRateRecords ==
  { [date |-> date, baseCurrency |-> "USD", targetCurrency |-> "THB",
     rate |-> [n |-> 219, d |-> 2]] : date \in Dates }

SharedRateLists == SeqsUpTo(SharedRateRecords, MaxSharedRates)

SharedRatesArrive == NotLoaded /\ \E rs \in SharedRateLists : BuildExchangeRateMap(rs)

AskNearestAgain == \E date \in Dates : FindNearestExchangeRate(date)

AskConversionAgain ==
  \E amount \in Amounts, date \in Dates, sourceCurrency \in Currencies,
     targetCurrency \in Currencies :
    ConvertCurrency(amount, date, sourceCurrency, targetCurrency)

NextShared == SharedRatesArrive \/ AskNearestAgain \/ AskConversionAgain

SpecShared == Init /\ [][NextShared]_vars

\* C17: findNearestExchangeRate and convertCurrency leave the index (and the list
\* it was built from) as they found it on every path, so whatever calls came
\* before, a call returns what it returns on the index as it was built.
C17_LookupsLeaveIndex ==
  [][ last'.op \in {"find", "convert"} =>
        /\ ratesMap' = ratesMap
        /\ rates' = rates
        /\ last'.op = "find" =>
              last'.ret = findNearestExchangeRate(last'.date, buildExchangeRateMap(rates))
        /\ last'.op = "convert" =>
              last'.ret = convertCurrency(last'.amount, last'.date, last'.sourceCurrency,
                                          last'.targetCurrency,
                                          buildExchangeRateMap(rates)) ]_vars

\* a conversion answered by the fallback record, after which the index is still
\* the one built from the list
C17_Witness ==
  /\ last.op = "convert"
  /\ ratesMap # <<>>
  /\ Len(last.ret.logs) = 1
  /\ last.ret.logs[1].level = "info"
  /\ ~MapHas(ratesMap, last.date)
  /\ ratesMap = buildExchangeRateMap(rates)

(***************************************************************************)
(* buildImportSuccessMessage on its own: both versions of the function are *)
(* applied to every combination of a count, the two flags and an           *)
(* earliestRateText that is null, empty or a text.                         *)
(***************************************************************************)
MessageCounts == {-1, 0, 1, 3}

RateTexts ==
  {NoText, Text(""), Text("the rate of 109.5000 USD/THB from 2020-01-01"), Text("x")}

BuildImportSuccessMessage(count, hasOldTransactions, earliestRateText, active) ==
  /\ last' = [op |-> "message", version |-> "utils", count |-> count,
              hasOldTransactions |-> hasOldTransactions,
              earliestRateText |-> earliestRateText, filtersActive |-> active,
              ret |-> buildImportSuccessMessage(count, hasOldTransactions,
                                                earliestRateText, active)]
  /\ UNCHANGED <<rates, ratesMap>>
  /\ UNCHANGED hookVars
  /\ UNCHANGED pageVars
  /\ UNCHANGED authVars

BuildImportSuccessMessageLib(count, hasOldTransactions, earliestRateText, active) ==
  /\ last' = [op |-> "message", version |-> "lib", count |-> count,
              hasOldTransactions |-> hasOldTransactions,
              earliestRateText |-> earliestRateText, filtersActive |-> active,
              ret |-> buildImportSuccessMessageLib(count, hasOldTransactions,
                                                   earliestRateText, active)]
  /\ UNCHANGED <<rates, ratesMap>>
  /\ UNCHANGED hookVars
  /\ UNCHANGED pageVars
  /\ UNCHANGED authVars

ComposeMessage ==
  \E count \in MessageCounts, hasOldTransactions \in BOOLEAN,
     earliestRateText \in RateTexts, active \in BOOLEAN :
    BuildImportSuccessMessage(count, hasOldTransactions, earliestRateText, active)

ComposeMessageLib ==
  \E count \in MessageCounts, hasOldTransactions \in BOOLEAN,
     earliestRateText \in RateTexts, active \in BOOLEAN :
    BuildImportSuccessMessageLib(count, hasOldTransactions, earliestRateText, active)

NextMessage == ComposeMessage \/ ComposeMessageLib

SpecMessage == Init /\ [][NextMessage]_vars

StartsWith(s, t) == Len(t) <= Len(s) /\ SubSeq(s, 1, Len(t)) = t

\* C18: for every count, hasOldTransactions, earliestRateText and filtersActive,
\* buildImportSuccessMessage returns a message; its type is warning exactly when
\* hasOldTransactions is true and earliestRateText is a non-empty string, and
\* success otherwise; its text starts with
\* "Successfully imported <count> transaction(s).".
C18_TotalAndTwoValued ==
  last.op = "message" =>
    LET old == /\ last.hasOldTransactions
               /\ last.earliestRateText # NoText
               /\ last.earliestRateText[1] # ""
    IN  /\ last.ret.type = (IF old THEN "warning" ELSE "success")
        /\ StartsWith(last.ret.text,
                      "Successfully imported " \o ToString(last.count)
                        \o " transaction(s).")

\* old transactions with an empty earliestRateText: a success, not a warning
C18_Witness ==
  /\ last.op = "message"
  /\ last.hasOldTransactions
  /\ last.earliestRateText = Text("")
  /\ last.ret.type = "success"

(***************************************************************************)
(* src/utils/jwt.ts and src/api/client.ts: the token store and the API     *)
(* client's response interceptor.                                          *)
(*                                                                         *)
(* A token is the string kept under 'auth_token', described by what        *)
(* decodeToken reads off it: whether it is the empty string, the number of *)
(* parts split('.') yields, and what JSON.parse(atob(parts[1])) does with  *)
(* the second part: it throws ("invalid"), yields null ("null"), or yields *)
(* an object, with a numeric exp (seconds) or without one.  Date.now() and *)
(* exp * 1000 are milliseconds.                                            *)
(***************************************************************************)
NoPayload == [json |-> "invalid", hasExp |-> FALSE, exp |-> 0]
NullPayload == [json |-> "null", hasExp |-> FALSE, exp |-> 0]
ObjectPayload == [json |-> "object", hasExp |-> FALSE, exp |-> 0]
ExpPayload(exp) == [json |-> "object", hasExp |-> TRUE, exp |-> exp]

\* exp claims, in seconds: 50 s is within a minute of every instant of Nows,
\* 100 s is a minute away at 40 000 ms
Exps == {50, 100}

\* Date.now(), in milliseconds
Nows == {0, 39999, 40000, 40001, 100000}

Tokens ==
  { [empty |-> TRUE,  parts |-> 1, payload |-> NoPayload],       \* ''
    [empty |-> FALSE, parts |-> 1, payload |-> NoPayload],       \* 'undefined'
    [empty |-> FALSE, parts |-> 2, payload |-> NoPayload],       \* 'a.b'
    [empty |-> FALSE, parts |-> 4, payload |-> ObjectPayload],   \* 'a.b.c.d'
    [empty |-> FALSE, parts |-> 3, payload |-> NoPayload],       \* 'a.%.c'
    [empty |-> FALSE, parts |-> 3, payload |-> NullPayload],     \* payload null
    [empty |-> FALSE, parts |-> 3, payload |-> ObjectPayload] }  \* payload {sub}
  \cup { [empty |-> FALSE, parts |-> 3, payload |-> ExpPayload(exp)] : exp \in Exps }

\* decodeToken: the payload object, or Null (returned early, parsed as null, or
\* from the catch block)
decodeToken(token) ==
  IF token.parts # 3 THEN Null
  ELSE IF token.payload.json = "object" THEN token.payload
  ELSE Null

\* isTokenExpired at Date.now() = time; undefined * 1000 is NaN, and
\* now >= NaN - 60000 is false
isTokenExpired(token, time) ==
  LET payload == decodeToken(token)
  IN  IF payload = Null THEN TRUE
      ELSE IF ~payload.hasExp THEN FALSE
      ELSE LET expirationTime == payload.exp * 1000
           IN  time >= expirationTime - 60000

\* !token: nothing stored, or the empty string
Falsy(token) == token = Null \/ token.empty

SetToken(token) ==
  /\ storedToken' = token
  /\ last' = [op |-> "setToken"]
  /\ UNCHANGED <<rates, ratesMap, now>>
  /\ UNCHANGED hookVars
  /\ UNCHANGED pageVars

RemoveToken ==
  /\ storedToken' = Null
  /\ last' = [op |-> "removeToken"]
  /\ UNCHANGED <<rates, ratesMap, now>>
  /\ UNCHANGED hookVars
  /\ UNCHANGED pageVars

\* getValidToken: ret is the token returned, or Null
GetValidToken ==
  LET token == storedToken
  IN  /\ IF Falsy(token)
         THEN /\ last' = [op |-> "getValidToken", stored |-> token, ret |-> Null]
              /\ UNCHANGED storedToken
         ELSE IF isTokenExpired(token, now)
         THEN /\ last' = [op |-> "getValidToken", stored |-> token, ret |-> Null]
              /\ storedToken' = Null
         ELSE /\ last' = [op |-> "getValidToken", stored |-> token, ret |-> token]
              /\ UNCHANGED storedToken
      /\ UNCHANGED <<rates, ratesMap, now>>
      /\ UNCHANGED hookVars
      /\ UNCHANGED pageVars

\* time passes
Tick(time) ==
  /\ time > now
  /\ now' = time
  /\ last' = [op |-> "tick"]
  /\ UNCHANGED <<rates, ratesMap, storedToken>>
  /\ UNCHANGED hookVars
  /\ UNCHANGED pageVars

(***************************************************************************)
(* The AxiosError handed to the response interceptor: response is Null or  *)
(* [status, data], where data is Null for a body that is undefined, null   *)
(* or '' (each of them falsy); request tells whether error.request is set. *)
(***************************************************************************)
Statuses == {400, 401, 404, 500}

ErrorBodies ==
  { Null,
    [type |-> "VALIDATION_ERROR", message |-> "Invalid request"],
    [type |-> "NOT_FOUND", message |-> "Transaction not found"] }

AxiosMessages == {"Network Error", "timeout of 10000ms exceeded"}

\* an error that carries a response carries the request it answers
AxiosErrors ==
  { [response |-> [status |-> status, data |-> data], request |-> TRUE,
     message |-> "Request failed"] :
      status \in Statuses, data \in ErrorBodies }
  \cup { [response |-> Null, request |-> request, message |-> message] :
           request \in BOOLEAN, message \in AxiosMessages }

\* new ApiError(status, response, message); message is NoText when not passed
ApiError(status, response, message) ==
  [status |-> status, response |-> response, message |-> message]

\* the ApiError the error callback of the response interceptor throws
rejection(error) ==
  IF error.response # Null /\ error.response.data # Null
  THEN LET apiErrorResponse == error.response.data
       IN  ApiError(error.response.status, apiErrorResponse,
                    Text(apiErrorResponse.message))
  ELSE IF error.request
  THEN ApiError(503, [type |-> "SERVICE_UNAVAILABLE",
                      message |-> "Unable to reach the server. Please check your connection."],
                NoText)
  ELSE ApiError(500, [type |-> "INTERNAL_ERROR", message |-> error.message], NoText)

\* a 401 that is thrown without touching the stored token
RejectResponse_KeepToken(error) ==
  /\ last' = [op |-> "responseError", client |-> "token", error |-> error,
              thrown |-> rejection(error)]
  /\ UNCHANGED <<rates, ratesMap>>
  /\ UNCHANGED hookVars
  /\ UNCHANGED pageVars
  /\ UNCHANGED authVars

\* the token-based client: a 401 removes the stored token, then the error is thrown
RejectResponse(error) ==
  /\ storedToken' = IF error.response # Null /\ error.response.status = 401
                    THEN Null ELSE storedToken
  /\ last' = [op |-> "responseError", client |-> "token", error |-> error,
              thrown |-> rejection(error)]
  /\ UNCHANGED <<rates, ratesMap, now>>
  /\ UNCHANGED hookVars
  /\ UNCHANGED pageVars

\* the client before tokens: the error is thrown, nothing else happens
RejectResponseLegacy(error) ==
  /\ last' = [op |-> "responseError", client |-> "legacy", error |-> error,
              thrown |-> rejection(error)]
  /\ UNCHANGED <<rates, ratesMap>>
  /\ UNCHANGED hookVars
  /\ UNCHANGED pageVars
  /\ UNCHANGED authVars

\* what getValidToken returns for a stored token at Date.now() = time, and what
\* it leaves in storage
validTokenOf(token, time) ==
  IF Falsy(token) THEN Null
  ELSE IF isTokenExpired(token, time) THEN Null
  ELSE token

storageAfterGetValidToken(token, time) ==
  IF Falsy(token) THEN token
  ELSE IF isTokenExpired(token, time) THEN Null
  ELSE token

\* config.headers.Authorization: absent, or `Bearer ${token}`
NoAuthorization == [scheme |-> "none"]
Bearer(token) == [scheme |-> "Bearer", token |-> token]

\* a request interceptor that attaches whatever getToken() returns
RequestInterceptor_StoredToken ==
  /\ last' = [op |-> "request", stored |-> storedToken, sent |-> TRUE,
              Authorization |-> IF ~Falsy(storedToken) THEN Bearer(storedToken)
                                ELSE NoAuthorization]
  /\ UNCHANGED <<rates, ratesMap, storedToken, now>>
  /\ UNCHANGED hookVars
  /\ UNCHANGED pageVars

\* the request interceptor of the token-based client: the config is returned,
\* and so the request sent, with the header when getValidToken() gave a token
RequestInterceptor ==
  LET token == validTokenOf(storedToken, now)
  IN  /\ last' = [op |-> "request", stored |-> storedToken, sent |-> TRUE,
                  Authorization |-> IF ~Falsy(token) THEN Bearer(token)
                                    ELSE NoAuthorization]
      /\ storedToken' = storageAfterGetValidToken(storedToken, now)
      /\ UNCHANGED <<rates, ratesMap, now>>
      /\ UNCHANGED hookVars
      /\ UNCHANGED pageVars

Login == \E token \in Tokens : SetToken(token)

Logout == storedToken # Null /\ RemoveToken

ClockAdvances == \E time \in Nows : Tick(time)

RequestFails == \E error \in AxiosErrors : RejectResponse(error)

RequestFailsLegacy == \E error \in AxiosErrors : RejectResponseLegacy(error)

NextClient ==
  \/ Login
  \/ Logout
  \/ ClockAdvances
  \/ GetValidToken
  \/ RequestFails
  \/ RequestFailsLegacy
  \/ RequestInterceptor

SpecClient == Init /\ [][NextClient]_vars

(***************************************************************************)
(* Claims about the API client and the token store, checked under          *)
(* SpecClient.                                                             *)
(***************************************************************************)
\* the server returned a response / the request was sent and none came back
ResponseReceived(error) == error.response # Null
NoResponseReceived(error) == error.response = Null /\ error.request

\* the ApiError the interceptor builds when it could not reach the server
IsServiceUnavailable(thrown) ==
  thrown.status = 503 /\ thrown.response.type = "SERVICE_UNAVAILABLE"

IsInternalError(thrown) ==
  thrown.status = 500 /\ thrown.response.type = "INTERNAL_ERROR"

\* C19: the response interceptor rejects a failed request with an ApiError whose
\* status is the HTTP status of the response whenever the server returned one,
\* 503 SERVICE_UNAVAILABLE only when the request was sent and no response was
\* received, and 500 INTERNAL_ERROR otherwise.
C19_StatusClassifiesFailure ==
  last.op = "responseError" =>
    /\ ResponseReceived(last.error) => last.thrown.status = last.error.response.status
    /\ IsServiceUnavailable(last.thrown) => NoResponseReceived(last.error)
    /\ (~ResponseReceived(last.error) /\ ~NoResponseReceived(last.error)) =>
          IsInternalError(last.thrown)

\* the stored token decodes to a payload with a numeric exp, and the current
\* time is more than 60 seconds before it
FreshAt(token, time) ==
  /\ token # Null
  /\ decodeToken(token) # Null
  /\ decodeToken(token).hasExp
  /\ decodeToken(token).exp * 1000 - time > 60000

\* the stored token cannot be decoded, or it is within 60 seconds of its exp or
\* past it
StaleAt(token, time) ==
  /\ token # Null
  /\ \/ decodeToken(token) = Null
     \/ /\ decodeToken(token).hasExp
        /\ decodeToken(token).exp * 1000 - time <= 60000

\* C20: getValidToken returns a token only if one is stored, its payload decodes
\* and the current time is more than 60 seconds before its exp; if the stored
\* token is expired or cannot be decoded it returns null and the token is removed
\* from storage; if it returns a token, storage is left unchanged.
C20_OnlyFreshTokens ==
  last.op = "getValidToken" =>
    /\ last.ret # Null => (last.ret = last.stored /\ FreshAt(last.stored, now))
    /\ StaleAt(last.stored, now) => (last.ret = Null /\ storedToken = Null)
    /\ last.ret # Null => storedToken = last.stored

(***************************************************************************)
(* Ties and logs of the lookup engine, checked under Spec.                 *)
(***************************************************************************)
\* the keys of the index at the smallest distance from date
NearestKeys(date) ==
  { k \in IndexKeys : \A q \in IndexKeys : Distance(k, date) <= Distance(q, date) }

\* C21: asked for a date that is not a key while two keys are at the same
\* smallest distance from it, findNearestExchangeRate returns the record of the
\* earlier of the two keys, in whichever order the keys were inserted.
C21_TieGoesToEarlierKey ==
  (last.op = "find" /\ ~MapHas(ratesMap, last.date)) =>
    \A k1, k2 \in NearestKeys(last.date) :
      getTime(k1) < getTime(k2) => last.ret = MapGet(ratesMap, k1)

\* 2020-03-17 lies 76 days from both keys, the later key inserted first
C21_Witness ==
  /\ last.op = "find"
  /\ last.date = "2020-03-17"
  /\ MapKeys(ratesMap) = <<"2020-06-01", "2020-01-01">>
  /\ NearestKeys(last.date) = {"2020-01-01", "2020-06-01"}
  /\ last.ret = MapGet(ratesMap, "2020-01-01")

\* C22: for differing currencies and a non-empty index, convertCurrency writes
\* the "Using nearest exchange rate" line, once and at level info, exactly when
\* the resolved record's date differs from the date asked for; on an exact hit it
\* writes nothing; either way it returns the converted amount.
C22_InfoIffFallback ==
  (last.op = "convert" /\ last.sourceCurrency # last.targetCurrency /\ ratesMap # <<>>) =>
    /\ last.ret.kind = "return"
    /\ IF last.sourceCurrency = FixedBaseCurrency
       THEN IsProduct(last.ret.value, last.amount, Resolved.rate)
       ELSE IsQuotient(last.ret.value, last.amount, Resolved.rate)
    /\ last.ret.logs = IF Resolved.date # last.date
                       THEN <<NearestRateInfo(Resolved.date, last.date)>>
                       ELSE <<>>

\* a conversion on a fallback record: one info line naming both dates
C22_Witness ==
  /\ last.op = "convert"
  /\ last.sourceCurrency # last.targetCurrency
  /\ ratesMap # <<>>
  /\ Resolved.date # last.date
  /\ Len(last.ret.logs) = 1
  /\ last.ret.logs[1].level = "info"
  /\ Contains(last.ret.logs[1].text, Resolved.date)
  /\ Contains(last.ret.logs[1].text, last.date)
  /\ last.ret.kind = "return"

(***************************************************************************)
(* What decides the message of a non-empty import; checked under           *)
(* SpecImport.                                                             *)
(***************************************************************************)
\* C23: the message of a non-empty import is decided by the minimum date over
\* all imported transactions and the earliest rate record of the pair (display
\* currency, currency of the first imported transaction): a warning quoting that
\* record when the minimum date lies before it, a plain success otherwise.  The
\* currencies of the other transactions and the records of other pairs play no
\* part.
C23_FirstCurrencyMinDate ==
  (Imported /\ Len(event.importedTransactions) > 0) =>
    IF SomeImportedBeforeRates
    THEN \E r \in EarliestPairRecords :
           importMessage =
             buildImportSuccessMessage(
               event.count, TRUE,
               buildExchangeRateAvailabilityText(r.date, r.rate, r.targetCurrency,
                                                 r.baseCurrency),
               event.filtersActive)
    ELSE importMessage =
           buildImportSuccessMessage(event.count, FALSE, NoText, event.filtersActive)

\* a JPY transaction first and an older THB transaction second, rates for both
\* pairs: the warning quotes the JPY pair's first rate
C23_Witness ==
  /\ Imported
  /\ Len(event.importedTransactions) = 2
  /\ event.importedTransactions[1].currencyIsoCode = "JPY"
  /\ event.importedTransactions[2].currencyIsoCode = "THB"
  /\ StrLess(event.importedTransactions[2].date, event.importedTransactions[1].date)
  /\ Len(earliestRatesByCurrency) = 2
  /\ earliestRatesByCurrency[1].value.date # earliestRatesByCurrency[2].value.date
  /\ importMessage # Null
  /\ importMessage.type = "warning"
  /\ Contains(importMessage.text, "USD/JPY")

(***************************************************************************)
(* Timers and the reference to them; checked under SpecHook.               *)
(***************************************************************************)
\* at most one timer is scheduled, and timeoutRef holds a timer exactly when one
\* is scheduled, namely that one
RefMatchesTimers ==
  /\ Cardinality(timers) <= 1
  /\ timers = IF timeoutRef = NoTimer THEN {} ELSE {timeoutRef}

\* C24 as stated: in every reachable state of the hook at most one auto-dismiss
\* timer is pending and timeoutRef refers to a timer exactly when one is
\* pending.
C24_RefMatchesTimersAlways == RefMatchesTimers

\* C24, amended: the same in every reachable state in which the view is mounted;
\* once the view is unmounted no timer is pending, while timeoutRef may still
\* hold the timer the cleanup cancelled.
C24_RefMatchesTimersWhileMounted ==
  /\ mounted => RefMatchesTimers
  /\ ~mounted => timers = {}

\* a second success import has cancelled the first timer and scheduled its own
C24_Witness ==
  /\ mounted
  /\ event.type = "importSuccess"
  /\ nextTimer = 3
  /\ timeoutRef = 2
  /\ timers = {2}

\* the last event handled was the import that scheduled the pending timer: a
\* non-empty import whose success message is still displayed
ShowsMessageOfTimer ==
  /\ event.type = "importSuccess"
  /\ Len(event.importedTransactions) > 0
  /\ importMessage # Null
  /\ importMessage.type = "success"
  /\ TimerPending

\* C25: an auto-dismiss timer only clears the message set by the
\* handleImportSuccess call that scheduled it: whenever a timer fires, the
\* message it removes is the success message of that call, not an error, a
\* warning or a success set by a later event.
C25_TimerClearsOwnMessage ==
  [][event'.type = "timer" => ShowsMessageOfTimer]_vars

\* C26: after clearImportMessage the message is null and no timer is pending,
\* whatever was displayed and scheduled before; and the step after a dismissal
\* is never the callback of a timer, so the message stays null until an import
\* event sets one.
C26_DismissalIsFinal ==
  [][ /\ event'.type = "clear" => (importMessage' = Null /\ timers' = {})
      /\ event.type = "clear" => (event'.type # "timer" /\ importMessage = Null) ]_vars

\* a banner closed after an import had scheduled a timer
C26_Witness ==
  /\ event.type = "clear"
  /\ nextTimer > 1
  /\ importMessage = Null
  /\ timers = {}
  /\ timeoutRef = NoTimer

\* C27: a request of the token-based client is sent in every case, and carries
\* the header Authorization: Bearer <token> exactly when getValidToken returns a
\* token as the request interceptor runs, the token being the one returned; the
\* header never carries a stored token that is expired or cannot be decoded.
C27_BearerIffValidToken ==
  last.op = "request" =>
    /\ last.sent
    /\ last.Authorization =
         IF validTokenOf(last.stored, now) # Null
         THEN Bearer(validTokenOf(last.stored, now))
         ELSE NoAuthorization
    /\ StaleAt(last.stored, now) => last.Authorization = NoAuthorization
    /\ last.Authorization # NoAuthorization => last.Authorization.token = last.stored

\* a request made when the stored token is within a minute of its exp: sent
\* without the header, and the token is gone from storage
C27_Witness ==
  /\ last.op = "request"
  /\ last.stored # Null
  /\ decodeToken(last.stored) # Null
  /\ decodeToken(last.stored).hasExp
  /\ decodeToken(last.stored).exp * 1000 - now = 60000
  /\ last.sent
  /\ last.Authorization = NoAuthorization
  /\ storedToken = Null

\* the failed request was answered with status 401
Rejected401(call) ==
  /\ call.op = "responseError"
  /\ call.client = "token"
  /\ call.error.response # Null
  /\ call.error.response.status = 401

\* C28: in the token-based client a response with status 401 leaves no stored
\* token and is still thrown to the caller as an ApiError; while no token is
\* stored every request is sent without an Authorization header; and only
\* setToken makes a token stored again.
C28_UnauthorizedDropsToken ==
  [][ /\ Rejected401(last') =>
           /\ storedToken' = Null
           /\ last'.thrown = ApiError(last'.thrown.status, last'.thrown.response,
                                      last'.thrown.message)
           /\ last'.thrown.status >= 400
      /\ (storedToken = Null /\ last'.op = "request") =>
           (last'.sent /\ last'.Authorization = NoAuthorization)
      /\ (storedToken = Null /\ storedToken' # Null) => last'.op = "setToken" ]_vars

\* a 401 with a body: thrown with status 401, and no token is stored
C28_Witness ==
  /\ Rejected401(last)
  /\ last.error.response.data # Null
  /\ last.thrown.status = 401
  /\ storedToken = Null

(***************************************************************************)
(* src/features/admin/currencies/pages: CurrencyCreatePage and             *)
(* CurrencyEditPage.  A submit that succeeds shows a success message and   *)
(* schedules the navigation to the currency list 2000 ms later; the        *)
(* banner's close button calls clearMessage.  The page is mounted while    *)
(* the router shows its route; leaving the route runs the cleanup of the   *)
(* mount effect.  The callbacks are handed to mutate(), so they do not run *)
(* once the page is unmounted.                                             *)
(***************************************************************************)
MaxPageTimers == 3   \* most navigation timers scheduled in one behaviour

CurrencyListRoute == "/admin/currencies"

PageRoute == IF pageMode = "create" THEN "/admin/currencies/new"
             ELSE "/admin/currencies/1/edit"

PageMounted == location = PageRoute

CurrencyCodes == {"EUR", "JPY"}

\* the Error handed to onError: an ApiError with its response code, or another
\* Error
SubmitErrors ==
  { [apiError |-> TRUE, code |-> "INVALID_PROVIDER_SERIES_ID",
     message |-> "Invalid provider series"],
    [apiError |-> TRUE, code |-> "DUPLICATE", message |-> "Currency already exists"],
    [apiError |-> FALSE, code |-> "", message |-> "Network Error"] }

SavedText(currencyCode) ==
  "Currency " \o currencyCode \o
    (IF pageMode = "create" THEN " created successfully" ELSE " updated successfully")

FailedText(error) ==
  IF error.apiError
  THEN IF error.code = "INVALID_PROVIDER_SERIES_ID"
       THEN "The Provider Series ID is invalid. Please check the FRED documentation for the correct series ID."
       ELSE error.message
  ELSE IF pageMode = "create" THEN "Failed to create currency"
       ELSE "Failed to update currency"

\* onSuccess of the submit: the message is set and the navigation timer replaces
\* the one timeoutRef holds
SubmitSuccess(currencyCode) ==
  /\ pageMessage' = [type |-> "success", text |-> SavedText(currencyCode)]
  /\ pageTimers' = (pageTimers \ {pageTimeoutRef}) \cup {pageNextTimer}
  /\ pageTimeoutRef' = pageNextTimer
  /\ pageNextTimer' = pageNextTimer + 1
  /\ UNCHANGED <<pageMode, location>>
  /\ UNCHANGED rateVars
  /\ UNCHANGED hookVars
  /\ UNCHANGED authVars

\* onError of the submit
SubmitError(error) ==
  /\ pageMessage' = [type |-> "error", text |-> FailedText(error)]
  /\ UNCHANGED <<pageMode, location, pageTimeoutRef, pageTimers, pageNextTimer>>
  /\ UNCHANGED rateVars
  /\ UNCHANGED hookVars
  /\ UNCHANGED authVars

\* clearMessage
ClearMessage ==
  /\ pageMessage' = Null
  /\ IF pageTimeoutRef # NoTimer
     THEN pageTimers' = pageTimers \ {pageTimeoutRef} /\ pageTimeoutRef' = NoTimer
     ELSE UNCHANGED <<pageTimers, pageTimeoutRef>>
  /\ UNCHANGED <<pageMode, location, pageNextTimer>>
  /\ UNCHANGED rateVars
  /\ UNCHANGED hookVars
  /\ UNCHANGED authVars

\* navigate('/admin/currencies'): the route changes and the page unmounts, its
\* cleanup clearing the timer timeoutRef holds
Navigate(fired) ==
  /\ location' = CurrencyListRoute
  /\ pageTimers' = (pageTimers \ fired) \ {pageTimeoutRef}
  /\ UNCHANGED <<pageMode, pageMessage, pageTimeoutRef, pageNextTimer>>
  /\ UNCHANGED rateVars
  /\ UNCHANGED hookVars
  /\ UNCHANGED authVars

\* the setTimeout callback of timer id, 2000 ms after it was scheduled
NavigationTimerFires(id) == id \in pageTimers /\ Navigate({id})

InitPage ==
  /\ rates = <<>>
  /\ ratesMap = <<>>
  /\ last = [op |-> "none"]
  /\ HookIdle
  /\ AuthIdle
  /\ pageMode \in {"create", "edit"}
  /\ location = PageRoute
  /\ pageMessage = Null
  /\ pageTimeoutRef = NoTimer
  /\ pageTimers = {}
  /\ pageNextTimer = 1

SubmitSucceeds ==
  /\ PageMounted
  /\ pageNextTimer <= MaxPageTimers
  /\ \E currencyCode \in CurrencyCodes : SubmitSuccess(currencyCode)

SubmitFails == PageMounted /\ \E error \in SubmitErrors : SubmitError(error)

CloseMessage == PageMounted /\ pageMessage # Null /\ ClearMessage

BackToCurrencies == PageMounted /\ Navigate({})

NavigationTimer == \E id \in pageTimers : NavigationTimerFires(id)

NextPage ==
  \/ SubmitSucceeds
  \/ SubmitFails
  \/ CloseMessage
  \/ BackToCurrencies
  \/ NavigationTimer

\* a scheduled timer that is not cleared fires: the event loop runs its callback
SpecPage == InitPage /\ [][NextPage]_vars /\ WF_vars(NavigationTimer)

SavedShown == pageMessage # Null /\ pageMessage.type = "success"

\* C29: after a submit that succeeded the page shows the success message and,
\* unless the user leaves it, eventually navigates to the currency list by the
\* 2-second timer, whatever the user does with the banner in the meantime; and
\* never are two navigation timers pending.
C29_SavedLeadsToList ==
  /\ SavedShown ~> (location = CurrencyListRoute)
  /\ [](Cardinality(pageTimers) <= 1)

(***************************************************************************)
(* The round trip of a conversion: an amount is converted, and the result  *)
(* is converted back at the same date on the same index.                   *)
(***************************************************************************)
\* convertCurrency called on what the last call returned, the currencies swapped
ConvertBack ==
  /\ last.op = "convert"
  /\ last' = [op |-> "convertBack", amount |-> last.amount, date |-> last.date,
              sourceCurrency |-> last.sourceCurrency,
              targetCurrency |-> last.targetCurrency,
              there |-> last.ret,
              ret |-> convertCurrency(last.ret.value, last.date, last.targetCurrency,
                                      last.sourceCurrency, ratesMap)]
  /\ UNCHANGED <<rates, ratesMap>>
  /\ UNCHANGED hookVars
  /\ UNCHANGED authVars
  /\ UNCHANGED pageVars

NextRoundTrip == RatesArrive \/ AskConversion \/ ConvertBack

SpecRoundTrip == Init /\ [][NextRoundTrip]_vars

\* C30: with a (positive) rate r resolved for the date, an amount converted from
\* the base currency to another currency and back at the same date comes back
\* unchanged: the first conversion gives amount * r, the second divides it by r.
C30_RoundTrip ==
  ( /\ last.op = "convertBack"
    /\ last.sourceCurrency = FixedBaseCurrency
    /\ last.targetCurrency # FixedBaseCurrency
    /\ ratesMap # <<>> ) =>
      /\ Resolved.rate.n > 0
      /\ IsProduct(last.there.value, last.amount, Resolved.rate)
      /\ IsQuotient(last.ret.value, last.there.value, Resolved.rate)
      /\ last.ret.kind = "return"
      /\ last.ret.value = last.amount

\* -5/2 USD to THB at 2/3 on a fallback record gives -5/3, and back gives -5/2
C30_Witness ==
  /\ last.op = "convertBack"
  /\ last.sourceCurrency = "USD"
  /\ last.targetCurrency = "THB"
  /\ ratesMap # <<>>
  /\ ~MapHas(ratesMap, last.date)
  /\ Resolved.rate = [n |-> 2, d |-> 3]
  /\ last.amount = [n |-> -5, d |-> 2]
  /\ last.there.value = [n |-> -5, d |-> 3]
  /\ last.ret.value = [n |-> -5, d |-> 2]

====
